---- MODULE Spec2Model ----
(***************************************************************************)
(* Timeline video generator (TenKenZero/cronologia).                       *)
(*                                                                         *)
(* The model follows modules/main.py (the coordinator), modules/gemini.py  *)
(* (timeline, script, prompt and image generation), modules/tts.py         *)
(* (speech synthesis) and modules/graphics.py (clip synthesis and          *)
(* concatenation).  The external services (the text and image models, the  *)
(* speech service, the video encoder) are the environment: each call       *)
(* either succeeds or fails, chosen nondeterministically.                  *)
(*                                                                         *)
(* Strings are abstracted to tags, file paths to records                   *)
(* [kind, order, n], and the filesystem to a function from paths to the    *)
(* kind of content found there.                                            *)
(***************************************************************************)
EXTENDS Integers, Sequences, FiniteSets, TLC

VARIABLES
    pc,               \* position of the running function
    timeline_data,    \* main.py:72  what generate_timeline_stages returned
    idx,              \* main.py:83  1-based position of the for loop in stages
    voiceover_script, \* main.py:91
    audio_path,       \* main.py:94
    response,         \* gemini.py:469-483  the text model's answer to the prompt request
    image_prompts,    \* main.py:100
    generated,        \* what generate_images returned for the current stage
    image_paths,      \* main.py:102, 110-115
    clip_images,      \* the image list handed to create_video_clip (main.py:118)
    stage_clips,      \* main.py:81
    all_clips,        \* main.py:137 / clip_paths of combine_video_clips
    joined,           \* graphics.py:243  the clips given to concatenate_videoclips
                      \* (empty when the call was not reached)
    fs,               \* the filesystem: path -> content
    out_path,         \* the output path given to the last graphics call
    outcome,          \* "running" | "returned" | "raised"
    result,           \* the returned value, or the exception raised
    logged,           \* the exception the last handler logged, or None
    durations,        \* graphics.py:47-98  the durations of the last clip built
    faults,           \* how often the environment has failed or misbehaved so far
    trace,            \* the calls made so far, in order, each with the exception
                      \* it raised into its caller (and the warnings a clip call logged)
    now,              \* the wall clock, in seconds
    runs,             \* app.py:44-76  the command-line runs started so far
    wrap              \* graphics.py:292-310  the arguments and the result of the
                      \* last call of wrap_text

vars == <<pc, timeline_data, idx, voiceover_script, audio_path, response,
          image_prompts, generated, image_paths, clip_images, stage_clips,
          all_clips, joined, fs, out_path, outcome, result, logged, durations,
          faults, trace, now, runs,
          wrap>>

(***************************************************************************)
(* Bounds of the model.                                                    *)
(***************************************************************************)
MaxStages == 3      \* longest stage list the timeline model answers with, and
                    \* the largest `order` value a stage carries
MaxFaults == 2      \* most failures and malformed answers of the environment
                    \* in one run of the coordinator
MaxClips == 3       \* longest clip list given to combine_video_clips alone
MaxResponse == 5    \* longest prompt list the text model answers with
MaxAudioUnits == 4  \* longest audio, in units of AudioStepMs
AudioStepMs == 250  \* the audio lengths tried are multiples of this many ms
MaxImages == 3      \* longest image list given to create_video_clip alone
MaxWords == 3       \* most words of a short caption given to wrap_text alone
MaxWordLen == 4     \* longest word of a short caption, in characters
MaxLines == 12      \* most one-letter words of a long caption
MaxTopicLen == 2    \* longest topic given on the command line, in characters
MaxRuns == 2        \* most command-line runs started
MaxClock == 60      \* the clock stops at this many seconds
TickSeconds == 30   \* the clock advances by this many seconds at a time

None == "None"

NoWrap == [text |-> <<>>, img_clip_width |-> 0, raised |-> None,
           wrapped_text |-> <<>>, adjusted_font_size |-> 0]

(***************************************************************************)
(* Paths.  {execution_id}_stage{order}.mp3 is Path("audio", order, 0),     *)
(* {execution_id}_stage{order}_{n}.jpg is Path("image", order, n),         *)
(* {execution_id}_stage{order}.mp4 is Path("clip", order, 0).              *)
(***************************************************************************)
Orders == 1..MaxStages

Path(kind, order, n) == [kind |-> kind, order |-> order, n |-> n]

AudioPath(order) == Path("audio", order, 0)

ImagePath(order, n) == Path("image", order, n)

ClipPath(order) == Path("clip", order, 0)

IntroPath == Path("intro", 0, 0)

FinalPath == Path("final", 0, 0)

CoverPath == Path("cover", 0, 0)

NoPath == Path("none", 0, 0)

ScratchPath == Path("scratch", 0, 0)

PromptCount == 3

AllPaths ==
    {AudioPath(o) : o \in Orders} \cup {ClipPath(o) : o \in Orders}
    \cup {ImagePath(o, n) : o \in Orders, n \in 1..PromptCount}
    \cup {IntroPath, FinalPath, CoverPath, NoPath, ScratchPath}

Exists(f, p) == f[p] # "absent"

EmptyDisk == [p \in AllPaths |-> "absent"]

WriteFile(f, p, content) == [f EXCEPT ![p] = content]

RECURSIVE WriteAll(_, _, _)
WriteAll(f, ps, content) ==
    IF ps = <<>> THEN f
    ELSE WriteAll(WriteFile(f, Head(ps), content), Tail(ps), content)

SeqsUpTo(S, n) == UNION {[1..k -> S] : k \in 0..n}

(***************************************************************************)
(* gemini.py: the timeline generator.  A response of the text model is     *)
(* either unusable (the call raised, the text is no JSON, a key is         *)
(* missing) or a JSON object with a title and a list of stages, which the  *)
(* code returns as it is: neither the number of stages, nor their `order`  *)
(* values, nor the presence of a description is validated.                 *)
(***************************************************************************)
Stage(order, name, description) ==
    [order |-> order, name |-> name, description |-> description]

ModelStages ==
    {Stage(o, "stage name", d) : o \in Orders, d \in {"stage description", None}}

FailedTimelineResponse == [ok |-> FALSE, title |-> None, stages |-> <<>>]

TimelineResponses ==
    {FailedTimelineResponse}
    \cup {[ok |-> TRUE, title |-> "model title", stages |-> s] :
            s \in SeqsUpTo(ModelStages, MaxStages)}

FallbackTimeline ==
    [title |-> "Timeline of T",
     stages |-> <<Stage(1, "History of T", "An overview of T")>>]

\* What an answer costs of the run's budget of environment faults: an unusable
\* answer counts once, and so does every stage whose `order` is not its
\* position and every stage without a description.
TimelineFaults(resp) ==
    IF ~resp.ok THEN 1
    ELSE Cardinality({i \in DOMAIN resp.stages : resp.stages[i].order # i})
         + Cardinality({i \in DOMAIN resp.stages :
                            resp.stages[i].description = None})

NoTimeline == [title |-> None, stages |-> <<>>]

generate_timeline_stages(resp) ==
    IF resp.ok
    THEN [title |-> resp.title, stages |-> resp.stages]
    ELSE FallbackTimeline

(***************************************************************************)
(* gemini.py: the script generator.  When the model call fails the         *)
(* handler builds the fallback text from stage.get('description')[:50],    *)
(* which raises TypeError out of the handler when the stage has no         *)
(* description.                                                            *)
(***************************************************************************)
Returned(v) == [raised |-> FALSE, value |-> v]

Raised(e) == [raised |-> TRUE, value |-> e]

generate_voiceover_script(stage, ok) ==
    IF ok THEN Returned("model script")
    ELSE IF stage.description = None THEN Raised("TypeError")
    ELSE Returned("fallback script")

(***************************************************************************)
(* tts.py: the speech synthesizer.  The whole body runs inside one try     *)
(* whose handler logs and returns the path.  A call ends in one of these   *)
(* ways: the audio is written ("ok"); the client was never initialised     *)
(* ("no_client", tts.py:64-65); the service call fails ("api_error",       *)
(* tts.py:93-97); the directory or the file cannot be opened               *)
(* ("open_error", tts.py:61, 100); the file is opened, which empties it,   *)
(* and writing fails ("write_error", tts.py:101).                          *)
(***************************************************************************)
SynthesisOutcomes == {"ok", "no_client", "api_error", "open_error", "write_error"}

AudioResult(raised, value, err, f) ==
    [raised |-> raised, value |-> value, logged |-> err, fs |-> f]

\* A handler that logs and raises again.
AudioHandlerReraises(e, output_path, f) == AudioResult(TRUE, e, e, f)

\* tts.py:106-110  except Exception: log, return output_path
AudioHandler(e, output_path, f) == AudioResult(FALSE, output_path, e, f)

generate_audio(f, text, output_path, mode) ==
    IF mode = "no_client" THEN AudioHandler("RuntimeError", output_path, f)
    ELSE IF mode = "api_error" THEN AudioHandler("APIError", output_path, f)
    ELSE IF mode = "open_error" THEN AudioHandler("OSError", output_path, f)
    ELSE IF mode = "write_error"
    THEN AudioHandler("OSError", output_path, WriteFile(f, output_path, "partial"))
    ELSE AudioResult(FALSE, output_path, None, WriteFile(f, output_path, "audio"))

(***************************************************************************)
(* gemini.py: the image-prompt generators.                                 *)
(***************************************************************************)
\* A prompt text: one the model wrote, or one of the generic texts of the code.
Prompt(kind, i) == [kind |-> kind, i |-> i]

ModelPrompt(i) == Prompt("model", i)

\* gemini.py:491 (the same text as the first generic prompt, gemini.py:503)
StageFiller == Prompt("stage generic", 1)

\* gemini.py:502-506
GenericStagePrompts == [i \in 1..3 |-> Prompt("stage generic", i)]

\* gemini.py:624 (the same text as the first generic prompt, gemini.py:636)
CoverFiller == Prompt("cover generic", 1)

\* gemini.py:635-639
GenericCoverPrompts == [i \in 1..3 |-> Prompt("cover generic", i)]

RECURSIVE PadPrompts(_, _)
PadPrompts(prompts, filler) ==
    IF Len(prompts) < PromptCount
    THEN PadPrompts(Append(prompts, filler), filler)
    ELSE prompts

\* A normalisation that keeps the last three prompts of a long answer.
NormalizePromptsKeepLast(prompts, filler) ==
    IF Len(prompts) < PromptCount THEN PadPrompts(prompts, filler)
    ELSE SubSeq(prompts, Len(prompts) - PromptCount + 1, Len(prompts))

NormalizePrompts(prompts, filler) ==
    IF Len(prompts) # PromptCount
    THEN IF Len(prompts) < PromptCount
         THEN PadPrompts(prompts, filler)
         ELSE SubSeq(prompts, 1, PromptCount)
    ELSE prompts

generate_image_prompts(resp) ==
    IF resp.ok THEN NormalizePrompts(resp.prompts, StageFiller)
    ELSE GenericStagePrompts

generate_cover_image_prompts(resp) ==
    IF resp.ok THEN NormalizePrompts(resp.prompts, CoverFiller)
    ELSE GenericCoverPrompts

FailedPromptResponse == [ok |-> FALSE, prompts |-> <<>>]

PromptResponse(prompts) == [ok |-> TRUE, prompts |-> prompts]

PromptFaults(resp) ==
    IF resp.ok /\ Len(resp.prompts) = PromptCount THEN 0 ELSE 1

(***************************************************************************)
(* gemini.py: the image generator.  `saved` is the set of 1-based prompt   *)
(* indices whose image the model produced and the code saved; every other  *)
(* prompt is logged and skipped.                                           *)
(***************************************************************************)
\* A loop that gives up at the first prompt that yields no image.
RECURSIVE SavedPathsUntilFailure(_, _, _, _)
SavedPathsUntilFailure(i, count, order, saved) ==
    IF i > count \/ i \notin saved THEN <<>>
    ELSE <<ImagePath(order, i)>> \o SavedPathsUntilFailure(i + 1, count, order, saved)

\* gemini.py:661-695  the loop over the prompts
RECURSIVE SavedPaths(_, _, _, _)
SavedPaths(i, count, order, saved) ==
    IF i > count THEN <<>>
    ELSE (IF i \in saved THEN <<ImagePath(order, i)>> ELSE <<>>)
         \o SavedPaths(i + 1, count, order, saved)

\* gemini.py:686, 688-695  what the loop logs for each prompt, in order
ImageLog(count, saved) ==
    [i \in 1..count |-> IF i \in saved THEN "Image saved" ELSE "Error"]

generate_images(f, prompts, order, saved) ==
    LET paths == SavedPaths(1, Len(prompts), order, saved)
    IN  [paths |-> paths, fs |-> WriteAll(f, paths, "generated"),
         log |-> ImageLog(Len(prompts), saved)]

(***************************************************************************)
(* graphics.py: placeholder images.  The function builds a plain image in  *)
(* memory and saves it; its handler only covers a failing local write,     *)
(* which is outside the faults of the environment modelled here.           *)
(***************************************************************************)
create_placeholder_image(f, output_path) ==
    WriteFile(f, output_path, "placeholder")

RECURSIVE PlaceholderPaths(_, _)
PlaceholderPaths(order, count) ==
    IF count = 0 THEN <<>>
    ELSE Append(PlaceholderPaths(order, count - 1), ImagePath(order, count))

RECURSIVE CreatePlaceholders(_, _)
CreatePlaceholders(f, paths) ==
    IF paths = <<>> THEN f
    ELSE CreatePlaceholders(create_placeholder_image(f, Head(paths)), Tail(paths))

(***************************************************************************)
(* graphics.py: the clip synthesizer.  Durations are in milliseconds; a    *)
(* quotient is kept exact, as the pair [num, den].                         *)
(***************************************************************************)
AddedSilenceMs == 1000

SilenceMs == 500

Rat(num, den) == [num |-> num, den |-> den]

RatAdd(a, b) == Rat(a.num * b.den + b.num * a.den, a.den * b.den)

RatEq(a, b) == a.num * b.den = b.num * a.den

RatLess(a, b) == a.num * b.den < b.num * a.den

RatMax(a, b) == IF RatLess(a, b) THEN b ELSE a

RECURSIVE ChainDuration(_)
ChainDuration(clip_durations) ==
    IF clip_durations = <<>> THEN Rat(0, 1)
    ELSE RatAdd(Head(clip_durations), ChainDuration(Tail(clip_durations)))

NoDurations == [native |-> 0, audio_duration |-> 0, image_duration |-> Rat(0, 1),
                video |-> Rat(0, 1), track |-> 0]

\* A total that counts the silence once.
PaddedDurationOnePad(D) == D + SilenceMs

\* graphics.py:51  audio_duration = audio.duration + 1.0
PaddedDuration(D) == D + AddedSilenceMs

\* graphics.py:54  image_duration = audio_duration / len(image_paths)
ImageDuration(audio_duration, n) == Rat(audio_duration, n)

\* graphics.py:96-97  concatenate_audioclips([silence, audio, silence])
TrackDuration(D) == SilenceMs + D + SilenceMs

ClipDurations(D, n) ==
    LET audio_duration == PaddedDuration(D)
        image_duration == ImageDuration(audio_duration, n)
        clipVideo == ChainDuration([i \in 1..n |-> image_duration])
        txt_clip == Rat(audio_duration, 1)
    IN  [native |-> D,
         audio_duration |-> audio_duration,
         image_duration |-> image_duration,
         video |-> RatMax(clipVideo, txt_clip),
         track |-> TrackDuration(D)]

RenderOutcomes == {"ok", "fail_before", "fail_during"}

\* A loop that leaves a missing image missing.
FillNoImages(f, paths) == f

\* graphics.py:58-62  a placeholder is written at every image path that is absent
RECURSIVE FillMissingImages(_, _)
FillMissingImages(f, paths) ==
    IF paths = <<>> THEN f
    ELSE FillMissingImages(
             IF Exists(f, Head(paths)) THEN f
             ELSE create_placeholder_image(f, Head(paths)),
             Tail(paths))

IsImage(f, p) == f[p] \in {"generated", "placeholder"}

\* An entry of the trace: a call (`at` is the position of the stage it was made
\* for, 0 outside the stage loop) with the exception it raised into its caller,
\* or a warning of a clip call (`at` is the position in the image list).
Event(ev, at, e) == [ev |-> ev, at |-> at, raised |-> e]

\* graphics.py:58-60  one warning for every image path that is absent, in order
RECURSIVE MissingImageWarnings(_, _, _)
MissingImageWarnings(f, paths, i) ==
    IF i > Len(paths) THEN <<>>
    ELSE IF Exists(f, paths[i]) THEN MissingImageWarnings(f, paths, i + 1)
    ELSE <<Event("Image file not found", i, None)>>
         \o MissingImageWarnings(create_placeholder_image(f, paths[i]), paths, i + 1)

ClipResult(raised, value, err, f, d, warnings) ==
    [raised |-> raised, value |-> value, logged |-> err, fs |-> f, durations |-> d,
     warnings |-> warnings]

\* A handler that logs and raises again.
ClipHandlerReraises(e, output_path, f, warnings) ==
    ClipResult(TRUE, e, e, f, NoDurations, warnings)

\* A handler that writes a clip without narration before it returns.
ClipHandlerWritesSilentClip(e, output_path, f, warnings) ==
    ClipResult(FALSE, output_path, e, WriteFile(f, output_path, "video"),
               NoDurations, warnings)

\* graphics.py:113-116  except Exception: log, return output_path
ClipHandler(e, output_path, f, warnings) ==
    ClipResult(FALSE, output_path, e, f, NoDurations, warnings)

create_video_clip(f, imgs, audio, caption, output_path, env) ==
    LET n == Len(imgs)
        f1 == FillMissingImages(f, imgs)
        w == MissingImageWarnings(f, imgs, 1)
    IN  IF f[audio] # "audio"
        THEN ClipHandler("OSError", output_path, f, <<>>)
        ELSE IF n = 0
        THEN ClipHandler("ZeroDivisionError", output_path, f, <<>>)
        ELSE IF \E i \in 1..n : ~IsImage(f1, imgs[i])
        THEN ClipHandler("OSError", output_path, f1, w)
        ELSE IF caption = None
        THEN ClipHandler("AttributeError", output_path, f1, w)
        ELSE IF env.render = "fail_before"
        THEN ClipHandler("RenderError", output_path, f1, w)
        ELSE IF env.render = "fail_during"
        THEN ClipHandler("RenderError", output_path,
                         WriteFile(f1, output_path, "partial"), w)
        ELSE ClipResult(FALSE, output_path, None,
                        WriteFile(f1, output_path, "video"),
                        ClipDurations(env.D, n), w)

\* graphics.py:118-210  the same synthesis, with the title as the caption
create_intro_clip(f, title, cover_imgs, audio, output_path, env) ==
    create_video_clip(f, cover_imgs, audio, title, output_path, env)

(***************************************************************************)
(* graphics.py: wrap_text.  A text is the list of the lengths of its       *)
(* words, the words separated by single blanks.  textwrap.fill works on    *)
(* chunks, a chunk being a word (or the piece of a word) or the blank      *)
(* between two words, and returns lines, each a list of chunks.            *)
(***************************************************************************)
MaxCharsPerLine == 25

CharPx == 15

DefaultFontSize == 50

LineThreshold == 5

MinFontSize == 20

FontStep == 5

Chunk(word, len) == [word |-> word, len |-> len]

BlankChunk == Chunk(0, 1)

\* textwrap's split of the text: word, blank, word, ..., word
RECURSIVE Chunks(_, _)
Chunks(words, i) ==
    IF i > Len(words) THEN <<>>
    ELSE (IF i > 1 THEN <<BlankChunk>> ELSE <<>>) \o <<Chunk(i, words[i])>>
         \o Chunks(words, i + 1)

RECURSIVE ChunksLen(_)
ChunksLen(chunks) ==
    IF chunks = <<>> THEN 0 ELSE Head(chunks).len + ChunksLen(Tail(chunks))

\* len(text)
TextLen(words) == ChunksLen(Chunks(words, 1))

\* textwrap: the chunks that fit on the current line are moved to it
RECURSIVE TakeFitting(_, _, _)
TakeFitting(chunks, cur_line, width) ==
    IF chunks # <<>> /\ ChunksLen(cur_line) + Head(chunks).len <= width
    THEN TakeFitting(Tail(chunks), Append(cur_line, Head(chunks)), width)
    ELSE [cur_line |-> cur_line, chunks |-> chunks]

\* textwrap (drop_whitespace): a blank or an empty piece at the end of a line
\* is dropped
DropWhitespace(cur_line) ==
    IF cur_line # <<>>
       /\ (cur_line[Len(cur_line)].word = 0 \/ cur_line[Len(cur_line)].len = 0)
    THEN SubSeq(cur_line, 1, Len(cur_line) - 1)
    ELSE cur_line

\* textwrap (break_long_words, the default): a chunk longer than a whole line
\* is cut, its head filling what is left of the current line.
RECURSIVE WrapChunks(_, _, _)
WrapChunks(chunks, lines, width) ==
    IF chunks = <<>> THEN lines
    ELSE LET start == IF Head(chunks).word = 0 /\ lines # <<>>
                      THEN Tail(chunks) ELSE chunks
             t == TakeFitting(start, <<>>, width)
             long == t.chunks # <<>> /\ Head(t.chunks).len > width
             space_left == width - ChunksLen(t.cur_line)
             cur_line == IF long
                         THEN Append(t.cur_line,
                                     Chunk(Head(t.chunks).word, space_left))
                         ELSE t.cur_line
             rest == IF long
                     THEN <<Chunk(Head(t.chunks).word,
                                  Head(t.chunks).len - space_left)>>
                          \o Tail(t.chunks)
                     ELSE t.chunks
             line == DropWhitespace(cur_line)
         IN  WrapChunks(rest, IF line = <<>> THEN lines ELSE Append(lines, line),
                        width)

\* textwrap.fill(text, width): the lines, later joined by newlines
fill(words, width) == WrapChunks(Chunks(words, 1), <<>>, width)

\* int(x / y): the quotient cut towards zero
IntDiv(x, y) == IF x >= 0 THEN x \div y ELSE -((-x) \div y)

\* A line budget that ignores the width of the frame.
MaxCharsCapOnly(img_clip_width) == MaxCharsPerLine

\* graphics.py:294-295
MaxChars(img_clip_width) ==
    IF IntDiv(img_clip_width, CharPx) < MaxCharsPerLine
    THEN IntDiv(img_clip_width, CharPx)
    ELSE MaxCharsPerLine

\* graphics.py:301  wrapped_text.count('\n') + 1
NumLines(lines) == IF lines = <<>> THEN 1 ELSE Len(lines)

\* A font size that shrinks without a floor.
FontSizeNoFloor(num_lines) ==
    IF num_lines > LineThreshold
    THEN DefaultFontSize - (num_lines - LineThreshold) * FontStep
    ELSE DefaultFontSize

\* graphics.py:304-308
FontSize(num_lines) ==
    IF num_lines > LineThreshold
    THEN LET shrunk == DefaultFontSize - (num_lines - LineThreshold) * FontStep
         IN  IF shrunk > MinFontSize THEN shrunk ELSE MinFontSize
    ELSE DefaultFontSize

\* graphics.py:292-310  textwrap raises ValueError for a width below 1
wrap_text(words, img_clip_width) ==
    LET max_chars_per_line == MaxChars(img_clip_width)
    IN  IF max_chars_per_line <= 0
        THEN [text |-> words, img_clip_width |-> img_clip_width,
              raised |-> "ValueError", wrapped_text |-> <<>>,
              adjusted_font_size |-> 0]
        ELSE LET wrapped_text == fill(words, max_chars_per_line)
             IN  [text |-> words, img_clip_width |-> img_clip_width,
                  raised |-> None, wrapped_text |-> wrapped_text,
                  adjusted_font_size |-> FontSize(NumLines(wrapped_text))]

(***************************************************************************)
(* graphics.py: the concatenator.                                          *)
(***************************************************************************)
\* A loader that gives up at the first missing path instead of skipping it.
RECURSIVE LoadClipsStopAtMissing(_, _)
LoadClipsStopAtMissing(f, clip_paths) ==
    IF clip_paths = <<>> \/ ~Exists(f, Head(clip_paths)) THEN <<>>
    ELSE <<Head(clip_paths)>> \o LoadClipsStopAtMissing(f, Tail(clip_paths))

\* A loader that also skips the files that are no complete video.
LoadClipsSkipUnloadable(f, clip_paths) ==
    SelectSeq(clip_paths, LAMBDA p : f[p] = "video")

\* graphics.py:230-237  the paths that exist, in input order
RECURSIVE LoadClips(_, _)
LoadClips(f, clip_paths) ==
    IF clip_paths = <<>> THEN <<>>
    ELSE (IF Exists(f, Head(clip_paths)) THEN <<Head(clip_paths)>> ELSE <<>>)
         \o LoadClips(f, Tail(clip_paths))

CombineResult(raised, value, err, clips, f) ==
    [raised |-> raised, value |-> value, logged |-> err, joined |-> clips, fs |-> f]

\* A handler that logs and raises again.
CombineHandlerReraises(e, output_path, clips, f) ==
    CombineResult(TRUE, e, e, clips, f)

\* graphics.py:258-261  except Exception: log, return output_path
CombineHandler(e, output_path, clips, f) ==
    CombineResult(FALSE, output_path, e, clips, f)

combine_video_clips(f, clip_paths, output_path, write) ==
    LET clips == LoadClips(f, clip_paths)
    IN  IF \E i \in 1..Len(clips) : f[clips[i]] # "video"
        THEN CombineHandler("OSError", output_path, <<>>, f)
        ELSE IF clips = <<>>
        THEN CombineHandler("ValueError", output_path, <<>>, f)
        ELSE IF write = "fail_before"
        THEN CombineHandler("RenderError", output_path, clips, f)
        ELSE IF write = "fail_during"
        THEN CombineHandler("RenderError", output_path, clips,
                            WriteFile(f, output_path, "partial"))
        ELSE CombineResult(FALSE, output_path, None, clips,
                           WriteFile(f, output_path, "video"))

(***************************************************************************)
(* main.py: generate_timeline_video, one action per call it makes.         *)
(***************************************************************************)
Stages == timeline_data.stages

RECURSIVE InsertByOrder(_, _)
InsertByOrder(stage, sorted) ==
    IF sorted = <<>> THEN <<stage>>
    ELSE IF stage.order < Head(sorted).order THEN <<stage>> \o sorted
    ELSE <<Head(sorted)>> \o InsertByOrder(stage, Tail(sorted))

RECURSIVE SortByOrder(_)
SortByOrder(stages) ==
    IF stages = <<>> THEN <<>>
    ELSE InsertByOrder(stages[Len(stages)],
                       SortByOrder(SubSeq(stages, 1, Len(stages) - 1)))

\* A loop that walks the stages sorted by their `order` value.
CurrentStageSorted == SortByOrder(Stages)[idx]

\* main.py:83  for stage in stages
CurrentStage == Stages[idx]

\* The answers of the text model to a prompt request: a list of 0 to
\* MaxResponse prompts, or none that can be used.
PipelinePromptResponses ==
    {FailedPromptResponse}
    \cup {PromptResponse([i \in 1..k |-> ModelPrompt(i)]) : k \in 0..MaxResponse}

AudioLengths == {k * AudioStepMs : k \in 1..MaxAudioUnits}

ClipEnvs == [D : AudioLengths, render : RenderOutcomes]

\* The coordinator keeps only the path a clip call returns, so the length of the
\* audio does not reach its state: one length stands for all.
PipelineClipEnvs == [D : {AudioStepMs}, render : RenderOutcomes]

Budget(cost) == faults + cost <= MaxFaults

BoolFaults(ok) == IF ok THEN 0 ELSE 1

\* The coordinator keeps only the path generate_audio returns, and every failed
\* synthesis leaves no audio at it: one failure stands for all.
PipelineSynthesisOutcomes == {"ok", "api_error"}

SynthesisFaults(mode) == IF mode = "ok" THEN 0 ELSE 1

RenderFaults(render) == IF render = "ok" THEN 0 ELSE 1

InitialDisks == {EmptyDisk}

Init ==
    /\ pc = "timeline"
    /\ timeline_data = NoTimeline
    /\ idx = 0
    /\ voiceover_script = None
    /\ audio_path = NoPath
    /\ response = FailedPromptResponse
    /\ image_prompts = <<>>
    /\ generated = <<>>
    /\ image_paths = <<>>
    /\ clip_images = <<>>
    /\ stage_clips = <<>>
    /\ all_clips = <<>>
    /\ joined = <<>>
    /\ fs \in InitialDisks
    /\ out_path = NoPath
    /\ outcome = "running"
    /\ result = None
    /\ logged = None
    /\ durations = NoDurations
    /\ faults = 0
    /\ trace = <<>>
    /\ now = 0
    /\ runs = <<>>
    /\ wrap = NoWrap

\* A handler that logs the exception and returns the final path all the same.
ReturnPathAfterError(e) ==
    /\ pc' = "done"
    /\ outcome' = "returned"
    /\ result' = FinalPath

\* main.py:145-147  except Exception: log, raise
Reraise(e) ==
    /\ pc' = "raised"
    /\ outcome' = "raised"
    /\ result' = e

\* main.py:72-78
CallTimeline ==
    /\ pc = "timeline"
    /\ \E resp \in TimelineResponses :
         /\ Budget(TimelineFaults(resp))
         /\ faults' = faults + TimelineFaults(resp)
         /\ timeline_data' = generate_timeline_stages(resp)
    /\ idx' = 1
    /\ pc' = IF Len(timeline_data'.stages) = 0 THEN "finish" ELSE "script"
    /\ trace' = Append(trace, Event("TIMELINE", 0, None))
    /\ UNCHANGED <<voiceover_script, audio_path, response, image_prompts,
                   generated, image_paths, clip_images, stage_clips, all_clips,
                   joined, fs, out_path, outcome, result, logged, durations,
                   now, runs,
                   wrap>>

\* main.py:83-91
CallScript ==
    /\ pc = "script"
    /\ \E ok \in BOOLEAN :
         LET r == generate_voiceover_script(CurrentStage, ok)
         IN  /\ Budget(BoolFaults(ok))
             /\ faults' = faults + BoolFaults(ok)
             /\ IF r.raised
                THEN /\ trace' = Append(trace, Event("SCRIPT", idx, r.value))
                     /\ Reraise(r.value)
                     /\ UNCHANGED voiceover_script
                ELSE /\ trace' = Append(trace, Event("SCRIPT", idx, None))
                     /\ voiceover_script' = r.value
                     /\ pc' = "audio"
                     /\ UNCHANGED <<outcome, result>>
    /\ UNCHANGED <<timeline_data, idx, audio_path, response, image_prompts,
                   generated, image_paths, clip_images, stage_clips, all_clips,
                   joined, fs, out_path, logged, durations, now, runs,
                   wrap>>

\* An audio step that asks again after a failed synthesis.
CallAudioRetries ==
    /\ pc = "audio"
    /\ \E mode \in PipelineSynthesisOutcomes :
         LET r == generate_audio(fs, voiceover_script,
                                 AudioPath(CurrentStage.order), mode)
         IN  /\ Budget(SynthesisFaults(mode))
             /\ faults' = faults + SynthesisFaults(mode)
             /\ audio_path' = r.value
             /\ fs' = r.fs
             /\ pc' = IF mode = "ok" THEN "prompts" ELSE "audio"
    /\ trace' = Append(trace, Event("AUDIO", idx, None))
    /\ UNCHANGED <<timeline_data, idx, voiceover_script, response, image_prompts,
                   generated, image_paths, clip_images, stage_clips, all_clips,
                   joined, out_path, outcome, result, logged, durations, now,
                   runs,
                   wrap>>

\* main.py:93-97
CallAudio ==
    /\ pc = "audio"
    /\ \E mode \in PipelineSynthesisOutcomes :
         LET r == generate_audio(fs, voiceover_script,
                                 AudioPath(CurrentStage.order), mode)
         IN  /\ Budget(SynthesisFaults(mode))
             /\ faults' = faults + SynthesisFaults(mode)
             /\ audio_path' = r.value
             /\ fs' = r.fs
    /\ pc' = "prompts"
    /\ trace' = Append(trace, Event("AUDIO", idx, None))
    /\ UNCHANGED <<timeline_data, idx, voiceover_script, response, image_prompts,
                   generated, image_paths, clip_images, stage_clips, all_clips,
                   joined, out_path, outcome, result, logged, durations, now,
                   runs,
                   wrap>>

\* main.py:99-100
CallPrompts ==
    /\ pc = "prompts"
    /\ \E resp \in PipelinePromptResponses :
         /\ Budget(PromptFaults(resp))
         /\ faults' = faults + PromptFaults(resp)
         /\ response' = resp
         /\ image_prompts' = generate_image_prompts(resp)
    /\ pc' = "images"
    /\ trace' = Append(trace, Event("PROMPTS", idx, None))
    /\ UNCHANGED <<timeline_data, idx, voiceover_script, audio_path, generated,
                   image_paths, clip_images, stage_clips, all_clips, joined, fs,
                   out_path, outcome, result, logged, durations, now, runs,
                   wrap>>

\* main.py:101-106
CallImages ==
    /\ pc = "images"
    /\ \E saved \in SUBSET (1..Len(image_prompts)) :
         LET r == generate_images(fs, image_prompts, CurrentStage.order, saved)
         IN  /\ Budget(Len(image_prompts) - Cardinality(saved))
             /\ faults' = faults + Len(image_prompts) - Cardinality(saved)
             /\ image_paths' = r.paths
             /\ generated' = r.paths
             /\ fs' = r.fs
    /\ pc' = "placeholders"
    /\ trace' = Append(trace, Event("IMAGES", idx, None))
    /\ UNCHANGED <<timeline_data, idx, voiceover_script, audio_path, response,
                   image_prompts, clip_images, stage_clips, all_clips, joined,
                   out_path, outcome, result, logged, durations, now, runs,
                   wrap>>

\* main.py:108-115  the list the coordinator goes on with
\* A fallback that keeps the images already generated and fills the gaps.
CheckedImagesKeepPartial(f, paths, order) ==
    IF paths = <<>> \/ Len(paths) < PromptCount
    THEN [paths |-> PlaceholderPaths(order, PromptCount),
          fs |-> FillMissingImages(f, PlaceholderPaths(order, PromptCount))]
    ELSE [paths |-> paths, fs |-> f]

CheckedImages(f, paths, order) ==
    IF paths = <<>> \/ Len(paths) < PromptCount
    THEN [paths |-> PlaceholderPaths(order, PromptCount),
          fs |-> CreatePlaceholders(f, PlaceholderPaths(order, PromptCount))]
    ELSE [paths |-> paths, fs |-> f]

\* A check that also sorts the stage list by `order`.
CheckImagesSortsStages ==
    /\ pc = "placeholders"
    /\ LET r == CheckedImages(fs, image_paths, CurrentStage.order)
       IN  /\ image_paths' = r.paths
           /\ fs' = r.fs
    /\ timeline_data' = [timeline_data EXCEPT !.stages = SortByOrder(@)]
    /\ pc' = "clip"
    /\ UNCHANGED <<idx, voiceover_script, audio_path, response,
                   image_prompts, generated, clip_images, stage_clips, all_clips,
                   joined, out_path, outcome, result, logged, durations, faults,
                   trace, now, runs,
                   wrap>>

CheckImages ==
    /\ pc = "placeholders"
    /\ LET r == CheckedImages(fs, image_paths, CurrentStage.order)
       IN  /\ image_paths' = r.paths
           /\ fs' = r.fs
    /\ pc' = "clip"
    /\ UNCHANGED <<timeline_data, idx, voiceover_script, audio_path, response,
                   image_prompts, generated, clip_images, stage_clips, all_clips,
                   joined, out_path, outcome, result, logged, durations, faults,
                   trace, now, runs,
                   wrap>>

\* main.py:117-126
CallClip ==
    /\ pc = "clip"
    /\ \E env \in PipelineClipEnvs :
         LET r == create_video_clip(fs, image_paths, audio_path, CurrentStage.name,
                                    ClipPath(CurrentStage.order), env)
         IN  /\ Budget(RenderFaults(env.render))
             /\ faults' = faults + RenderFaults(env.render)
             /\ stage_clips' = Append(stage_clips, r.value)
             /\ fs' = r.fs
             /\ logged' = r.logged
    /\ clip_images' = image_paths
    /\ out_path' = ClipPath(CurrentStage.order)
    /\ idx' = idx + 1
    /\ pc' = IF idx < Len(Stages) THEN "script" ELSE "finish"
    /\ trace' = Append(trace, Event("CLIP", idx, None))
    /\ UNCHANGED <<timeline_data, voiceover_script, audio_path, response,
                   image_prompts, generated, image_paths, all_clips, joined,
                   outcome, result, durations, now, runs,
                   wrap>>

\* main.py:130-134 passes 3 positional arguments; graphics.py:118-123 takes 4,
\* none with a default value.
IntroCallArguments == 3

IntroParameters == 4

\* A call that binds whatever the number of arguments.
CallBindsAlways(arguments, parameters) == TRUE

\* A Python call binds only when every parameter without a default gets an
\* argument; otherwise it raises TypeError before the body runs.
CallBinds(arguments, parameters) == arguments = parameters

\* main.py:127-143  the intro clip, then the concatenation
FinishRun ==
    /\ pc = "finish"
    /\ IF ~CallBinds(IntroCallArguments, IntroParameters)
       THEN /\ trace' = Append(trace, Event("INTRO", 0, "TypeError"))
            /\ Reraise("TypeError")
            /\ UNCHANGED <<all_clips, joined, fs, out_path, logged>>
       ELSE \E env \in PipelineClipEnvs, write \in RenderOutcomes :
              LET intro == create_intro_clip(fs, timeline_data.title, <<CoverPath>>,
                                             NoPath, IntroPath, env)
                  clips == <<intro.value>> \o stage_clips
                  r == combine_video_clips(intro.fs, clips, FinalPath, write)
              IN  /\ all_clips' = clips
                  /\ joined' = r.joined
                  /\ fs' = r.fs
                  /\ out_path' = FinalPath
                  /\ logged' = r.logged
                  /\ pc' = "done"
                  /\ outcome' = "returned"
                  /\ result' = r.value
                  /\ trace' = trace \o <<Event("INTRO", 0, None),
                                           Event("COMBINE", 0, None)>>
    /\ UNCHANGED <<timeline_data, idx, voiceover_script, audio_path, response,
                   image_prompts, generated, image_paths, clip_images, stage_clips,
                   durations, faults, now, runs,
                   wrap>>

Next ==
    \/ CallTimeline
    \/ CallScript
    \/ CallAudio
    \/ CallPrompts
    \/ CallImages
    \/ CheckImages
    \/ CallClip
    \/ FinishRun

Spec == Init /\ [][Next]_vars

(***************************************************************************)
(* combine_video_clips on its own: any list of up to MaxClips clip paths,  *)
(* each path absent, a complete video, or an incomplete file.              *)
(***************************************************************************)
CombinePaths == {IntroPath, ClipPath(1), ClipPath(2)}

CombineDisks ==
    {[p \in AllPaths |-> IF p \in CombinePaths THEN c[p] ELSE "absent"] :
        c \in [CombinePaths -> {"absent", "video", "partial"}]}

InitCombine ==
    /\ pc = "combine_call"
    /\ timeline_data = NoTimeline
    /\ idx = 0
    /\ voiceover_script = None
    /\ audio_path = NoPath
    /\ response = FailedPromptResponse
    /\ image_prompts = <<>>
    /\ generated = <<>>
    /\ image_paths = <<>>
    /\ clip_images = <<>>
    /\ stage_clips = <<>>
    /\ all_clips \in SeqsUpTo(CombinePaths, MaxClips)
    /\ joined = <<>>
    /\ fs \in CombineDisks
    /\ out_path \in {FinalPath, ScratchPath}
    /\ outcome = "running"
    /\ result = None
    /\ logged = None
    /\ durations = NoDurations
    /\ faults = 0
    /\ trace = <<>>
    /\ now = 0
    /\ runs = <<>>
    /\ wrap = NoWrap

\* graphics.py:212-261
CombineCall ==
    /\ pc = "combine_call"
    /\ \E write \in RenderOutcomes :
         LET r == combine_video_clips(fs, all_clips, out_path, write)
         IN  /\ joined' = r.joined
             /\ fs' = r.fs
             /\ logged' = r.logged
             /\ outcome' = IF r.raised THEN "raised" ELSE "returned"
             /\ result' = r.value
    /\ pc' = "combine_done"
    /\ UNCHANGED <<timeline_data, idx, voiceover_script, audio_path, response,
                   image_prompts, generated, image_paths, clip_images, stage_clips,
                   all_clips, out_path, durations, faults, trace, now, runs,
                   wrap>>

NextCombine == CombineCall

SpecCombine == InitCombine /\ [][NextCombine]_vars

(***************************************************************************)
(* create_video_clip on its own: any list of up to MaxImages image paths   *)
(* (each absent, generated or a placeholder), an audio path that holds     *)
(* audio or nothing, a caption or none.                                    *)
(***************************************************************************)
ClipImagePaths == {ImagePath(1, n) : n \in 1..PromptCount}

ClipDisks ==
    {[p \in AllPaths |->
        IF p \in ClipImagePaths THEN c[p]
        ELSE IF p = AudioPath(1) THEN a
        ELSE "absent"] :
        c \in [ClipImagePaths -> {"absent", "generated", "placeholder"}],
        a \in {"absent", "audio"}}

InitClip ==
    /\ pc = "clip_call"
    /\ timeline_data = NoTimeline
    /\ idx = 0
    /\ voiceover_script = None
    /\ audio_path \in {AudioPath(1), NoPath}
    /\ response = FailedPromptResponse
    /\ image_prompts = <<>>
    /\ generated = <<>>
    /\ image_paths \in SeqsUpTo(ClipImagePaths, MaxImages)
    /\ clip_images = <<>>
    /\ stage_clips = <<>>
    /\ all_clips = <<>>
    /\ joined = <<>>
    /\ fs \in ClipDisks
    /\ out_path = ClipPath(1)
    /\ outcome = "running"
    /\ result = None
    /\ logged = None
    /\ durations = NoDurations
    /\ faults = 0
    /\ trace = <<>>
    /\ now = 0
    /\ runs = <<>>
    /\ wrap = NoWrap

\* graphics.py:23-116
ClipCall ==
    /\ pc = "clip_call"
    /\ \E env \in ClipEnvs, caption \in {"caption", None} :
         LET r == create_video_clip(fs, image_paths, audio_path, caption,
                                    out_path, env)
         IN  /\ fs' = r.fs
             /\ logged' = r.logged
             /\ durations' = r.durations
             /\ outcome' = IF r.raised THEN "raised" ELSE "returned"
             /\ result' = r.value
             /\ trace' = r.warnings
    /\ clip_images' = image_paths
    /\ pc' = "clip_done"
    /\ UNCHANGED <<timeline_data, idx, voiceover_script, audio_path, response,
                   image_prompts, generated, image_paths, stage_clips,
                   all_clips, joined, out_path, faults, now, runs,
                   wrap>>

NextClip == ClipCall

SpecClip == InitClip /\ [][NextClip]_vars

(***************************************************************************)
(* The prompt generators on their own: the text model's answer is any list *)
(* of up to MaxResponse prompts, or unusable.                              *)
(***************************************************************************)
HarnessPromptResponses ==
    {FailedPromptResponse}
    \cup {PromptResponse(ps) :
            ps \in SeqsUpTo({ModelPrompt(1), ModelPrompt(2)}, MaxResponse)}

InitPrompts ==
    /\ pc = "prompts_call"
    /\ timeline_data = NoTimeline
    /\ idx = 0
    /\ voiceover_script = None
    /\ audio_path = NoPath
    /\ response \in HarnessPromptResponses
    /\ image_prompts = <<>>
    /\ generated = <<>>
    /\ image_paths = <<>>
    /\ clip_images = <<>>
    /\ stage_clips = <<>>
    /\ all_clips = <<>>
    /\ joined = <<>>
    /\ fs = EmptyDisk
    /\ out_path = NoPath
    /\ outcome = "running"
    /\ result = None
    /\ logged = None
    /\ durations = NoDurations
    /\ faults = 0
    /\ trace = <<>>
    /\ now = 0
    /\ runs = <<>>
    /\ wrap = NoWrap

PromptsUnchanged ==
    UNCHANGED <<timeline_data, idx, voiceover_script, audio_path, response,
                generated, image_paths, clip_images, stage_clips, all_clips,
                joined, fs, out_path, result, logged, durations, faults, trace,
                now, runs,
                wrap>>

\* gemini.py:369-506
StagePromptsCall ==
    /\ pc = "prompts_call"
    /\ image_prompts' = generate_image_prompts(response)
    /\ outcome' = "returned"
    /\ pc' = "stage_prompts_done"
    /\ PromptsUnchanged

\* gemini.py:508-639
CoverPromptsCall ==
    /\ pc = "prompts_call"
    /\ image_prompts' = generate_cover_image_prompts(response)
    /\ outcome' = "returned"
    /\ pc' = "cover_prompts_done"
    /\ PromptsUnchanged

NextPrompts == StagePromptsCall \/ CoverPromptsCall

SpecPrompts == InitPrompts /\ [][NextPrompts]_vars

(***************************************************************************)
(* generate_audio on its own: any script text, an output path that is      *)
(* free or holds the audio of an earlier call, any outcome of the          *)
(* synthesis.                                                              *)
(***************************************************************************)
ScriptTexts == {"model script", "fallback script", ""}

AudioOutPaths == {AudioPath(1), AudioPath(2), ScratchPath}

AudioDisks ==
    {[p \in AllPaths |-> IF p \in AudioOutPaths THEN c[p] ELSE "absent"] :
        c \in [AudioOutPaths -> {"absent", "audio"}]}

InitAudio ==
    /\ pc = "audio_call"
    /\ timeline_data = NoTimeline
    /\ idx = 0
    /\ voiceover_script \in ScriptTexts
    /\ audio_path = NoPath
    /\ response = FailedPromptResponse
    /\ image_prompts = <<>>
    /\ generated = <<>>
    /\ image_paths = <<>>
    /\ clip_images = <<>>
    /\ stage_clips = <<>>
    /\ all_clips = <<>>
    /\ joined = <<>>
    /\ fs \in AudioDisks
    /\ out_path \in AudioOutPaths
    /\ outcome = "running"
    /\ result = None
    /\ logged = None
    /\ durations = NoDurations
    /\ faults = 0
    /\ trace = <<>>
    /\ now = 0
    /\ runs = <<>>
    /\ wrap = NoWrap

\* tts.py:45-110
AudioCall ==
    /\ pc = "audio_call"
    /\ \E mode \in SynthesisOutcomes :
         LET r == generate_audio(fs, voiceover_script, out_path, mode)
         IN  /\ fs' = r.fs
             /\ logged' = r.logged
             /\ outcome' = IF r.raised THEN "raised" ELSE "returned"
             /\ result' = r.value
             /\ audio_path' = IF r.raised THEN audio_path ELSE r.value
    /\ pc' = "audio_done"
    /\ UNCHANGED <<timeline_data, idx, voiceover_script, response, image_prompts,
                   generated, image_paths, clip_images, stage_clips, all_clips,
                   joined, out_path, durations, faults, trace, now, runs,
                   wrap>>

NextAudio == AudioCall

SpecAudio == InitAudio /\ [][NextAudio]_vars

(***************************************************************************)
(* generate_images on its own: up to PromptCount prompts for a stage of    *)
(* any order; for every prompt the image model yields an image that is     *)
(* saved, or it does not.                                                  *)
(***************************************************************************)
ImagePromptLists == SeqsUpTo({ModelPrompt(1), StageFiller}, PromptCount)

InitImages ==
    /\ pc = "images_call"
    /\ \E o \in Orders :
         timeline_data = [title |-> "model title",
                          stages |-> <<Stage(o, "stage name", "stage description")>>]
    /\ idx = 1
    /\ voiceover_script = None
    /\ audio_path = NoPath
    /\ response = FailedPromptResponse
    /\ image_prompts \in ImagePromptLists
    /\ generated = <<>>
    /\ image_paths = <<>>
    /\ clip_images = <<>>
    /\ stage_clips = <<>>
    /\ all_clips = <<>>
    /\ joined = <<>>
    /\ fs = EmptyDisk
    /\ out_path = NoPath
    /\ outcome = "running"
    /\ result = None
    /\ logged = None
    /\ durations = NoDurations
    /\ faults = 0
    /\ trace = <<>>
    /\ now = 0
    /\ runs = <<>>
    /\ wrap = NoWrap

\* gemini.py:641-702
ImagesCall ==
    /\ pc = "images_call"
    /\ \E saved \in SUBSET (1..Len(image_prompts)) :
         LET r == generate_images(fs, image_prompts, CurrentStage.order, saved)
         IN  /\ generated' = r.paths
             /\ image_paths' = r.paths
             /\ fs' = r.fs
             /\ trace' = r.log
    /\ outcome' = "returned"
    /\ pc' = "images_done"
    /\ UNCHANGED <<timeline_data, idx, voiceover_script, audio_path, response,
                   image_prompts, clip_images, stage_clips, all_clips, joined,
                   out_path, result, logged, durations, faults, now, runs,
                   wrap>>

NextImages == ImagesCall

SpecImages == InitImages /\ [][NextImages]_vars

(***************************************************************************)
(* app.py: the command line.  A topic is a string of characters; the       *)
(* execution id is the wall clock formatted by strftime("%d%m%y%H%M"),     *)
(* that is, cut to the minute.                                             *)
(***************************************************************************)
Whitespace == {" "}

TopicChars == Whitespace \cup {"a"}

Topics == SeqsUpTo(TopicChars, MaxTopicLen)

RECURSIVE lstrip(_)
lstrip(text) ==
    IF text # <<>> /\ Head(text) \in Whitespace THEN lstrip(Tail(text)) ELSE text

RECURSIVE rstrip(_)
rstrip(text) ==
    IF text # <<>> /\ text[Len(text)] \in Whitespace
    THEN rstrip(SubSeq(text, 1, Len(text) - 1))
    ELSE text

\* str.strip(): the text without its leading and trailing whitespace
strip(text) == rstrip(lstrip(text))

\* A validation that only rejects the empty string.
TopicRejectedWhenEmpty(topic) == topic = <<>>

\* app.py:55  if not args.topic or args.topic.strip() == ""
TopicRejected(topic) == topic = <<>> \/ strip(topic) = <<>>

SecondsPerMinute == 60

MinutesPerHour == 60

HoursPerDay == 24

\* app.py:60  datetime.now().strftime("%d%m%y%H%M"): day, month and year (as
\* the number of the day), hour and minute; the seconds are dropped.
strftime(t) ==
    [date |-> t \div (SecondsPerMinute * MinutesPerHour * HoursPerDay),
     hour |-> (t \div (SecondsPerMinute * MinutesPerHour)) % HoursPerDay,
     minute |-> (t \div SecondsPerMinute) % MinutesPerHour]

\* main.py:37-39  media/{image,audio,video}/{execution_id}
RunDirs(execution_id) ==
    {[kind |-> k, execution_id |-> execution_id] : k \in {"image", "audio", "video"}}

\* main.py:96, 122  a file of a run: {dir}/{execution_id}_stage{order}.{ext}
RunFile(execution_id, p) ==
    [dir |-> [kind |-> p.kind, execution_id |-> execution_id],
     name |-> [execution_id |-> execution_id, asset |-> p]]

\* The file of a run that is followed: the audio of stage 1.
RunAssets == {AudioPath(1)}

\* app.py:44-67 and main.py:64-67  a run up to the start of the pipeline
StartedRun(topic, t) ==
    IF TopicRejected(topic)
    THEN [topic |-> topic, started |-> t, called |-> FALSE,
          execution_id |-> None, dirs |-> {}, written |-> {},
          printed |-> "Topic cannot be empty", exit_code |-> 1]
    ELSE [topic |-> topic, started |-> t, called |-> TRUE,
          execution_id |-> strftime(t), dirs |-> RunDirs(strftime(t)),
          written |-> {}, printed |-> None, exit_code |-> None]

\* app.py:68-76  the end of a run whose pipeline call returned or raised
ReportedRun(run, how) ==
    IF how = "returned"
    THEN [run EXCEPT !.printed = "Timeline video generated successfully",
                     !.exit_code = 0]
    ELSE [run EXCEPT !.printed = "Error", !.exit_code = 1]

PipelineIdle ==
    /\ timeline_data = NoTimeline
    /\ idx = 0
    /\ voiceover_script = None
    /\ audio_path = NoPath
    /\ response = FailedPromptResponse
    /\ image_prompts = <<>>
    /\ generated = <<>>
    /\ image_paths = <<>>
    /\ clip_images = <<>>
    /\ stage_clips = <<>>
    /\ all_clips = <<>>
    /\ joined = <<>>
    /\ fs = EmptyDisk
    /\ out_path = NoPath
    /\ outcome = "running"
    /\ result = None
    /\ logged = None
    /\ durations = NoDurations
    /\ faults = 0
    /\ trace = <<>>

PipelineVars ==
    <<timeline_data, idx, voiceover_script, audio_path, response, image_prompts,
      generated, image_paths, clip_images, stage_clips, all_clips, joined, fs,
      out_path, outcome, result, logged, durations, faults, trace>>

(***************************************************************************)
(* Several runs of the command line, started at any time of the clock.     *)
(***************************************************************************)
InitRuns ==
    /\ pc = "shell"
    /\ PipelineIdle
    /\ now = 0
    /\ runs = <<>>
    /\ wrap = NoWrap

Tick ==
    /\ now + TickSeconds <= MaxClock
    /\ now' = now + TickSeconds
    /\ UNCHANGED <<pc, runs, PipelineVars, wrap>>

\* app.py:44-67
StartRun ==
    /\ Len(runs) < MaxRuns
    /\ \E topic \in Topics : runs' = Append(runs, StartedRun(topic, now))
    /\ UNCHANGED <<pc, now, PipelineVars, wrap>>

\* main.py:94-97  a running pipeline writes a file of its own
RunWrites ==
    /\ \E i \in DOMAIN runs, p \in RunAssets :
         /\ runs[i].called
         /\ runs' = [runs EXCEPT ![i].written =
                        @ \cup {RunFile(runs[i].execution_id, p)}]
    /\ UNCHANGED <<pc, now, PipelineVars, wrap>>

NextRuns == Tick \/ StartRun \/ RunWrites

SpecRuns == InitRuns /\ [][NextRuns]_vars

(***************************************************************************)
(* One run of the command line together with the pipeline it calls.        *)
(***************************************************************************)
\* The pipeline never looks into the topic it is given: one accepted topic
\* stands for all, next to the empty and the blank one.
CliTopics == {topic \in Topics : Len(topic) <= 1}

InitCli ==
    /\ pc = "main"
    /\ PipelineIdle
    /\ now = 0
    /\ runs = <<>>
    /\ wrap = NoWrap

\* app.py:44-67
MainStart ==
    /\ pc = "main"
    /\ \E topic \in CliTopics : runs' = <<StartedRun(topic, now)>>
    /\ pc' = IF runs'[1].called THEN "timeline" ELSE "exited"
    /\ UNCHANGED <<now, PipelineVars, wrap>>

\* app.py:68-76
MainReport ==
    /\ pc \in {"done", "raised"}
    /\ runs' = <<ReportedRun(runs[1], outcome)>>
    /\ pc' = "exited"
    /\ UNCHANGED <<now, PipelineVars, wrap>>

NextCli == MainStart \/ Next \/ MainReport

SpecCli == InitCli /\ [][NextCli]_vars

(***************************************************************************)
(* wrap_text on its own: short captions of any words, captions of many     *)
(* one-letter words, one word longer than the cap, and captions of 40      *)
(* characters, at widths from 0 px to the width of a frame.                *)
(***************************************************************************)
ShortTexts == SeqsUpTo(1..MaxWordLen, MaxWords)

LongTexts == {[i \in 1..k |-> 1] : k \in 1..MaxLines}

CaptionWordLens == {3, 6, 9, 10, 12, 13, 19, 20, 40}

Captions == {words \in SeqsUpTo(CaptionWordLens, 5) : TextLen(words) = 40}

WrapTexts == ShortTexts \cup LongTexts \cup Captions \cup {<<30>>}

WrapWidths == {0, 14, 15, 30, 45, 270, 1280}

InitWrap ==
    /\ pc = "wrap_call"
    /\ PipelineIdle
    /\ now = 0
    /\ runs = <<>>
    /\ \E words \in WrapTexts, w \in WrapWidths :
         wrap = [NoWrap EXCEPT !.text = words, !.img_clip_width = w]

\* graphics.py:292-310
WrapCall ==
    /\ pc = "wrap_call"
    /\ wrap' = wrap_text(wrap.text, wrap.img_clip_width)
    /\ pc' = "wrap_done"
    /\ UNCHANGED <<now, runs, PipelineVars>>

NextWrap == WrapCall

SpecWrap == InitWrap /\ [][NextWrap]_vars

(***************************************************************************)
(* Properties.                                                             *)
(***************************************************************************)
Ended == pc \in {"done", "raised"}

LoopCompleted == Len(stage_clips) = Len(Stages)

ExpectedClipList ==
    <<IntroPath>> \o [i \in 1..Len(Stages) |-> ClipPath(Stages[i].order)]

\* C1: a run over a timeline of N >= 1 stages whose stage loop has completed
\* ends by handing combine_video_clips the intro clip path followed by the N
\* stage clip paths, in strictly ascending stage order.
C1_ConcatenationList ==
    (Ended /\ Len(Stages) >= 1 /\ LoopCompleted)
        => /\ pc = "done"
           /\ all_clips = ExpectedClipList
           /\ \A i, j \in 1..Len(Stages) :
                i < j => Stages[i].order < Stages[j].order

\* C2: when the timeline model call fails, the run works on the fallback
\* timeline (title 'Timeline of T', one stage of order 1) and ends by returning
\* the final path, built from exactly 2 clips, without raising.
C2_FallbackRunCompletes ==
    (Ended /\ timeline_data = FallbackTimeline)
        => /\ outcome = "returned"
           /\ result = FinalPath
           /\ Len(all_clips) = 2

\* The paths of the clip list that exist, in input order.
ExistingClips == SelectSeq(all_clips, LAMBDA p : fs[p] # "absent")

AllExistingLoad == \A i \in 1..Len(all_clips) : fs[all_clips[i]] \in {"absent", "video"}

\* C3: combine_video_clips skips every missing path without failing on it and
\* joins the paths that exist in their original relative order.
C3_SkipsMissingKeepsOrder ==
    (pc = "combine_done" /\ AllExistingLoad /\ ExistingClips # <<>>)
        => /\ joined = ExistingClips
           /\ outcome = "returned"
           /\ logged \in {None, "RenderError"}

C3_Witness ==
    /\ pc = "combine_done"
    /\ all_clips = <<IntroPath, ClipPath(1), ClipPath(2)>>
    /\ fs[IntroPath] = "absent"
    /\ joined = <<ClipPath(1), ClipPath(2)>>
    /\ logged = None
    /\ fs[out_path] = "video"

\* C4: when none of the given clip paths exists, the call fails with the
\* no-input error, and that error reaches the caller.
C4_NoInputErrorSurfaces ==
    (/\ pc = "combine_done"
     /\ all_clips # <<>>
     /\ \A i \in 1..Len(all_clips) : fs[all_clips[i]] = "absent")
        => /\ outcome = "raised"
           /\ result = "ValueError"

\* C5: whenever loading, joining or writing fails inside combine_video_clips,
\* the call does not raise and returns the output path it was given.
C5_CombineBestEffortReturn ==
    (pc = "combine_done" /\ logged \in {"OSError", "RenderError"})
        => /\ outcome = "returned"
           /\ result = out_path

C5_Witness ==
    /\ pc = "combine_done"
    /\ logged = "RenderError"
    /\ joined # <<>>
    /\ fs[out_path] = "absent"
    /\ outcome = "returned"
    /\ result = out_path

\* C6: create_video_clip never raises, whatever the image list (the empty list
\* included), the audio path and the caption: it returns the output path it was
\* given, also when no file was written there.
C6_ClipNeverRaises ==
    pc = "clip_done" => (outcome = "returned" /\ result = out_path)

C6_Witness ==
    /\ pc = "clip_done"
    /\ clip_images = <<>>
    /\ fs[audio_path] = "audio"
    /\ logged = "ZeroDivisionError"
    /\ fs[out_path] = "absent"
    /\ outcome = "returned"
    /\ result = out_path

\* C7: in a clip that was synthesized from audio of length D and n >= 1 images,
\* the total is D + 2 x 0.5 s, every image is shown for (D + 1.0)/n, the image
\* durations add up to the total, and the total is the length of the track
\* silence ++ audio ++ silence, so video and audio have the same length.
C7_DurationsMatch ==
    (pc = "clip_done" /\ logged = None)
        => LET n == Len(clip_images)
               D == durations.native
               total == D + 2 * SilenceMs
           IN  /\ n >= 1 /\ D > 0
               /\ durations.audio_duration = total
               /\ RatEq(durations.image_duration, Rat(D + 1000, n))
               /\ RatEq(ChainDuration([i \in 1..n |-> durations.image_duration]),
                        Rat(total, 1))
               /\ durations.track = total
               /\ RatEq(durations.video, Rat(durations.track, 1))

C7_Witness ==
    /\ pc = "clip_done"
    /\ logged = None
    /\ Len(clip_images) = 3
    /\ durations.native = AudioStepMs
    /\ durations.image_duration.num % durations.image_duration.den # 0
    /\ fs[out_path] = "video"

FillerAt(position) ==
    IF position = "stage_prompts_done" THEN StageFiller ELSE CoverFiller

\* C8: for an answer that is a list of 0 to 5 prompts, both prompt generators
\* return exactly 3 prompts: the first min(len, 3) prompts of the answer in
\* order, followed only by the generic filler prompt.
C8_NormalizedToThree ==
    (pc \in {"stage_prompts_done", "cover_prompts_done"} /\ response.ok)
        => /\ Len(image_prompts) = 3
           /\ \A i \in 1..3 :
                image_prompts[i] =
                    IF i <= Len(response.prompts) THEN response.prompts[i]
                    ELSE FillerAt(pc)

C8_Witness ==
    /\ pc = "cover_prompts_done"
    /\ response = PromptResponse(<<ModelPrompt(2)>>)
    /\ image_prompts = <<ModelPrompt(2), CoverFiller, CoverFiller>>

C10_StageNeverRaises ==
    outcome = "raised" => LoopCompleted

C20_AudioNeverRaises ==
    pc = "audio_done"
        => /\ outcome = "returned"
           /\ result = out_path
           /\ audio_path = out_path
           /\ logged = None => fs[out_path] = "audio"

C20_Witness ==
    /\ pc = "audio_done"
    /\ logged = "RuntimeError"
    /\ fs[out_path] = "absent"
    /\ outcome = "returned"
    /\ result = out_path

Blank(topic) == \A k \in DOMAIN topic : topic[k] \in Whitespace

\* C16: two runs started at different times never write to the same file
\* path, every path a run writes being namespaced under an execution id of
\* its own.
C16_RunsWriteDisjointPaths ==
    \A i, j \in DOMAIN runs :
        (runs[i].called /\ runs[j].called /\ runs[i].started # runs[j].started)
            => runs[i].written \cap runs[j].written = {}

\* C17: a run whose topic is empty or whitespace only exits with code 1 with
\* no execution id, no directories and no call of generate_timeline_video;
\* the pipeline is only ever called with a topic that has a non-whitespace
\* character.
C17_BlankTopicRejected ==
    \A i \in DOMAIN runs :
        /\ Blank(runs[i].topic)
              => /\ ~runs[i].called
                 /\ runs[i].exit_code = 1
                 /\ runs[i].execution_id = None
                 /\ runs[i].dirs = {}
                 /\ runs[i].written = {}
        /\ runs[i].called => \E k \in DOMAIN runs[i].topic :
                                  runs[i].topic[k] \notin Whitespace

C17_Witness ==
    /\ Len(runs) = 2
    /\ runs[1].topic = <<" ", " ">>
    /\ runs[1].exit_code = 1
    /\ ~runs[1].called
    /\ runs[2].topic = <<" ", "a">>
    /\ runs[2].called
    /\ runs[2].written # {}

RECURSIVE SavedIndices(_, _)
SavedIndices(log, i) ==
    IF i > Len(log) THEN <<>>
    ELSE (IF log[i] = "Image saved" THEN <<i>> ELSE <<>>) \o SavedIndices(log, i + 1)

\* C21: generate_images never raises and returns at most as many paths as
\* there are prompts: the path {prefix}_{i}.jpg exactly for the prompts i whose
\* image was generated and saved, in increasing i, each once; every prompt is
\* attempted, whatever happened to the ones before it.
C21_ImagesForSavedPrompts ==
    pc = "images_done"
        => LET saved == SavedIndices(trace, 1)
           IN  /\ outcome = "returned"
               /\ Len(trace) = Len(image_prompts)
               /\ Len(generated) <= Len(image_prompts)
               /\ Len(generated) = Len(saved)
               /\ \A k \in DOMAIN generated :
                     /\ generated[k] = ImagePath(CurrentStage.order, saved[k])
                     /\ fs[generated[k]] = "generated"
               /\ \A j, k \in DOMAIN generated :
                     j < k => generated[j].n < generated[k].n

C21_Witness ==
    /\ pc = "images_done"
    /\ Len(image_prompts) = 3
    /\ trace = <<"Error", "Image saved", "Image saved">>
    /\ generated = <<ImagePath(CurrentStage.order, 2), ImagePath(CurrentStage.order, 3)>>

\* C22: once the timeline generator has returned, the stage list and every
\* stage's order, name and description stay as they are for the rest of the
\* run.
C22_StagesReadOnly ==
    [][pc # "timeline" => timeline_data' = timeline_data]_vars

C22_Witness ==
    /\ pc = "finish"
    /\ Len(Stages) = 2
    /\ Stages[1].order = 2
    /\ Stages[2].order = 1
    /\ Len(stage_clips) = 2

\* C23: a file the image generator has written is never overwritten
\* afterwards by another component.
C23_GeneratedImagesKept ==
    [][\A p \in AllPaths : fs[p] = "generated" => fs'[p] = "generated"]_vars

Occurrences(ev, k) ==
    Cardinality({i \in DOMAIN trace : trace[i].ev = ev /\ trace[i].at = k})

StageCalls == {"SCRIPT", "AUDIO", "PROMPTS", "IMAGES", "CLIP"}

\* C28: the timeline generator is called exactly once, and for every stage
\* that has been processed each of the five collaborators was called exactly
\* once; no call is repeated for the stage in progress, none is made for a
\* stage that is not in the list.
C28_EachCallOnce ==
    /\ Occurrences("TIMELINE", 0) = IF pc = "timeline" THEN 0 ELSE 1
    /\ \A ev \in StageCalls :
          /\ \A k \in 1..Len(stage_clips) : Occurrences(ev, k) = 1
          /\ \A k \in 1..Len(Stages) : Occurrences(ev, k) <= 1
          /\ Cardinality({i \in DOMAIN trace : trace[i].ev = ev}) <= Len(Stages)
    /\ (Ended /\ LoopCompleted)
          => \A ev \in StageCalls :
                 Cardinality({i \in DOMAIN trace : trace[i].ev = ev}) = Len(Stages)

C28_Witness ==
    /\ pc = "finish"
    /\ Len(Stages) = 2
    /\ Len(stage_clips) = 2
    /\ fs[AudioPath(Stages[1].order)] = "absent"
    /\ voiceover_script = "fallback script"
    /\ Len(trace) = 11

\* C29: when a path of the input exists but is no loadable video,
\* combine_video_clips joins nothing and writes no output file, although other
\* clips of the input are valid, and still returns the output path.
C29_UnloadableClipAbandonsAll ==
    (pc = "combine_done" /\ \E i \in DOMAIN all_clips : fs[all_clips[i]] = "partial")
        => /\ joined = <<>>
           /\ fs[out_path] = "absent"
           /\ logged = "OSError"
           /\ outcome = "returned"
           /\ result = out_path

C29_Witness ==
    /\ pc = "combine_done"
    /\ all_clips = <<IntroPath, ClipPath(1), ClipPath(2)>>
    /\ fs[IntroPath] = "video"
    /\ fs[ClipPath(1)] = "partial"
    /\ fs[ClipPath(2)] = "video"
    /\ fs[out_path] = "absent"
    /\ result = out_path

\* The stage processed last had no audio file after its audio step.
LastStageWithoutAudio ==
    /\ stage_clips # <<>>
    /\ pc \in {"script", "finish"}
    /\ fs[audio_path] = "absent"

Wrapped == pc = "wrap_done" /\ wrap.raised = None

LineBudget == IF wrap.img_clip_width \div 15 < 25 THEN wrap.img_clip_width \div 15 ELSE 25

\* C24: every line of the wrapped text has at most min(25, floor(width / 15))
\* characters, and no word of the text is split across two lines: every piece
\* of a word on a line is the whole word.
C24_WrapsOnWordBoundaries ==
    Wrapped
        => \A i \in DOMAIN wrap.wrapped_text :
               LET line == wrap.wrapped_text[i]
               IN  /\ ChunksLen(line) <= LineBudget
                   /\ \A j \in DOMAIN line :
                         line[j].word # 0 => line[j].len = wrap.text[line[j].word]

Caption40At270 ==
    pc = "wrap_done" /\ TextLen(wrap.text) = 40 /\ wrap.img_clip_width = 270

\* C25 as stated: a 40-character caption at 270 px is wrapped into exactly 2
\* lines at the default font size 50.
C25_TwoLinesDefaultFont ==
    Caption40At270
        => /\ wrap.raised = None
           /\ Len(wrap.wrapped_text) = 2
           /\ wrap.adjusted_font_size = 50

\* C25 as amended: a 40-character caption of single-spaced words at 270 px has
\* a budget of 18 characters a line and is wrapped into 3 or 4 lines, never 2,
\* at the default font size 50.
C25_ThreeOrFourLinesDefaultFont ==
    Caption40At270
        => /\ wrap.raised = None
           /\ \A i \in DOMAIN wrap.wrapped_text :
                 ChunksLen(wrap.wrapped_text[i]) <= 18
           /\ Len(wrap.wrapped_text) \in {3, 4}
           /\ wrap.adjusted_font_size = 50

C25_Witness ==
    /\ Caption40At270
    /\ wrap.text = <<13, 12, 13>>
    /\ Len(wrap.wrapped_text) = 3
    /\ wrap.adjusted_font_size = 50

\* C26: with L wrapped lines the font size is 50 for L <= 5 and
\* max(20, 50 - 5 x (L - 5)) for L > 5, that is 45, 40, 35, 30, 25 for L = 6 to
\* 10 and the floor 20 for every L >= 11: always within 20..50 and never
\* larger for more lines.
C26_FontSizeRule ==
    Wrapped
        => LET L == NumLines(wrap.wrapped_text)
               size == wrap.adjusted_font_size
           IN  /\ size \in 20..50
               /\ L <= 5 => size = 50
               /\ (L > 5 /\ L < 11) => size = 50 - 5 * (L - 5)
               /\ L >= 11 => size = 20

C26_Witness ==
    /\ Wrapped
    /\ Len(wrap.wrapped_text) = 12
    /\ wrap.adjusted_font_size = 20

\* C27: wrap_text returns for every text and every width without raising, and
\* for the empty text it returns the empty wrapped text and the font size 50.
C27_WrapNeverRaises ==
    pc = "wrap_done"
        => /\ wrap.raised = None
           /\ wrap.text = <<>>
                 => (wrap.wrapped_text = <<>> /\ wrap.adjusted_font_size = 50)

StageEvents(k) ==
    <<Event("SCRIPT", k, None), Event("AUDIO", k, None), Event("PROMPTS", k, None),
      Event("IMAGES", k, None), Event("CLIP", k, None)>>

RECURSIVE StageLoopEvents(_)
StageLoopEvents(n) ==
    IF n = 0 THEN <<>> ELSE StageLoopEvents(n - 1) \o StageEvents(n)

ExpectedTrace ==
    <<Event("TIMELINE", 0, None)>> \o StageLoopEvents(Len(Stages))
        \o <<Event("INTRO", 0, None), Event("COMBINE", 0, None)>>

\* C11: the calls of a run are one timeline request, then SCRIPT, AUDIO,
\* PROMPTS, IMAGES, CLIP for each stage in turn, then the intro clip, then one
\* concatenation as the last step.  Stated for the runs over at least one stage
\* whose stage loop has completed.
C11_EventTraceShape ==
    (Ended /\ Len(Stages) >= 1 /\ LoopCompleted) => trace = ExpectedTrace

\* C12: the k-th collected stage clip path is the clip of the k-th stage of
\* the list the timeline generator returned, whatever the `order` values are.
C12_InputOrderPreserved ==
    /\ Len(stage_clips) <= Len(Stages)
    /\ \A k \in 1..Len(stage_clips) : stage_clips[k] = ClipPath(Stages[k].order)

C12_Witness ==
    /\ Len(Stages) = 2
    /\ Stages[1].order = 2
    /\ Stages[2].order = 1
    /\ stage_clips = <<ClipPath(2), ClipPath(1)>>

\* C13: an exception that a call raised into generate_timeline_video ends the
\* run at once, raised to the caller as it is; the function never returns a
\* path after one.
C13_CoordinatorReraises ==
    /\ \A i \in DOMAIN trace :
          trace[i].raised # None
              => /\ i = Len(trace)
                 /\ pc = "raised"
                 /\ outcome = "raised"
                 /\ result = trace[i].raised
    /\ outcome = "returned" => \A i \in DOMAIN trace : trace[i].raised = None

C13_Witness ==
    /\ outcome = "raised"
    /\ result = "TypeError"
    /\ trace # <<>>
    /\ trace[Len(trace)] = Event("SCRIPT", 2, "TypeError")
    /\ Len(stage_clips) = 1

\* C14: the coordinator always receives a timeline with a title and at least
\* one stage.
C14_TimelineHasStages ==
    pc # "timeline" => (timeline_data.title # None /\ Len(Stages) >= 1)

\* C15: within one run no two stages write to the same asset path, and no
\* clip path occurs twice among the collected stage clip paths.
C15_StagesOwnTheirPaths ==
    \A i, j \in 1..Len(stage_clips) : i # j => stage_clips[i] # stage_clips[j]

====
